---- MODULE Spec2Model ----
(***************************************************************************)
(* Shipping-Container-OCR: the container identifier validator              *)
(* (src/src/container_validator.py, src/config.py) and the extraction /    *)
(* correction loop (src/container_ocr.py, src/llm_client.py).              *)
(*                                                                         *)
(* A Python string is a sequence of one-character strings.                 *)
(***************************************************************************)
EXTENDS Integers, Sequences, FiniteSets, TLC

(***************************************************************************)
(* Bounds of the model.                                                    *)
(***************************************************************************)
\* the validator's inputs are the first NumBases base strings and every
\* string one character edit away from one of them
NumBases == 4
\* an Oracle response holds at most MaxRecords records
MaxRecords == 2
\* max_iterations ranges over 0 .. MaxIterations
MaxIterations == 3
\* a response text is made of at most MaxTokens pieces
MaxTokens == 4
\* run_tests_parallel submits at most MaxJobs jobs
MaxJobs == 3

(***************************************************************************)
(* Characters.                                                             *)
(***************************************************************************)
UpperSeq == << "A", "B", "C", "D", "E", "F", "G", "H", "I", "J", "K", "L", "M",
               "N", "O", "P", "Q", "R", "S", "T", "U", "V", "W", "X", "Y", "Z" >>
LowerSeq == << "a", "b", "c", "d", "e", "f", "g", "h", "i", "j", "k", "l", "m",
               "n", "o", "p", "q", "r", "s", "t", "u", "v", "w", "x", "y", "z" >>
DigitSeq == << "0", "1", "2", "3", "4", "5", "6", "7", "8", "9" >>

Range(f) == { f[i] : i \in DOMAIN f }

UpperLetters == Range(UpperSeq)
LowerLetters == Range(LowerSeq)
DigitChars   == Range(DigitSeq)

\* the characters an input of the model may contain: every upper-case letter,
\* every digit, a few lower-case letters, separators, and the one letter whose
\* upper-case form is two characters
EditChars == UpperLetters \cup DigitChars \cup { "c", "u", " ", "-", "eszett" }

IndexOf(seq, c) == CHOOSE i \in DOMAIN seq : seq[i] = c

\* str.upper() of one character, as a string
UpperChar(c) ==
    IF c \in LowerLetters THEN << UpperSeq[IndexOf(LowerSeq, c)] >>
    ELSE IF c = "eszett" THEN << "S", "S" >>
    ELSE << c >>

RECURSIVE PyUpper(_)
PyUpper(s) == IF s = << >> THEN << >> ELSE UpperChar(Head(s)) \o PyUpper(Tail(s))

\* the character class [A-Z0-9]
IsAZ09(c) == c \in UpperLetters \cup DigitChars

\* re.sub(r'[^A-Z0-9]', '', s)
SubNonAZ09(s) == SelectSeq(s, IsAZ09)

\* int(char) for a decimal digit
IntOfDigit(c) ==
    ("0" :> 0 @@ "1" :> 1 @@ "2" :> 2 @@ "3" :> 3 @@ "4" :> 4 @@
     "5" :> 5 @@ "6" :> 6 @@ "7" :> 7 @@ "8" :> 8 @@ "9" :> 9)[c]

\* str(n) for a natural number
RECURSIVE PyStr(_)
PyStr(n) == IF n < 10 THEN << DigitSeq[n + 1] >>
            ELSE PyStr(n \div 10) \o << DigitSeq[(n % 10) + 1] >>

(***************************************************************************)
(* src/config.py                                                           *)
(***************************************************************************)
CONTAINER_ID_LENGTH == 11

\* re.match(r'^[A-Z]{4}[0-9]{6}[0-9]$', s)
CONTAINER_ID_PATTERN(s) ==
    /\ Len(s) = 4 + 6 + 1
    /\ \A i \in 1..4 : s[i] \in UpperLetters
    /\ \A i \in 5..11 : s[i] \in DigitChars

LETTER_VALUES_Consecutive ==
    "A" :> 10 @@ "B" :> 11 @@ "C" :> 12 @@ "D" :> 13 @@ "E" :> 14 @@ "F" :> 15 @@ "G" :> 16 @@
    "H" :> 17 @@ "I" :> 18 @@ "J" :> 19 @@ "K" :> 20 @@ "L" :> 21 @@ "M" :> 22 @@ "N" :> 23 @@
    "O" :> 24 @@ "P" :> 25 @@ "Q" :> 26 @@ "R" :> 27 @@ "S" :> 28 @@ "T" :> 29 @@ "U" :> 30 @@
    "V" :> 31 @@ "W" :> 32 @@ "X" :> 33 @@ "Y" :> 34 @@ "Z" :> 35

LETTER_VALUES ==
    "A" :> 10 @@ "B" :> 12 @@ "C" :> 13 @@ "D" :> 14 @@ "E" :> 15 @@ "F" :> 16 @@ "G" :> 17 @@
    "H" :> 18 @@ "I" :> 19 @@ "J" :> 20 @@ "K" :> 21 @@ "L" :> 23 @@ "M" :> 24 @@ "N" :> 25 @@
    "O" :> 26 @@ "P" :> 27 @@ "Q" :> 28 @@ "R" :> 29 @@ "S" :> 30 @@ "T" :> 31 @@ "U" :> 32 @@
    "V" :> 34 @@ "W" :> 35 @@ "X" :> 36 @@ "Y" :> 37 @@ "Z" :> 38

(***************************************************************************)
(* src/src/container_validator.py                                          *)
(***************************************************************************)
\* the value a call produces: a returned value or a raised exception
Returned(v) == [ ok |-> TRUE, val |-> v ]
Raised(e)   == [ ok |-> FALSE, exc |-> e ]

\* 2 ** i
Pow2_Doubling(i) == 2 * i
Pow2(i) == 2 ^ i

\* the value of one character of the cleaned code; -1 stands for the
\* ValueError raised on a letter that is not in LETTER_VALUES or on a
\* character that is neither a letter nor a digit
CharValue(char) ==
    IF char \in DOMAIN LETTER_VALUES THEN LETTER_VALUES[char]
    ELSE IF char \in UpperLetters THEN -1
    ELSE IF char \in DigitChars THEN IntOfDigit(char)
    ELSE -1

\* the for loop of calculate_check_digit: total_sum after the characters
\* i .. len-1 (0-based) have been added to acc
RECURSIVE SumLoop(_, _, _)
SumLoop(code, i, acc) ==
    IF i >= Len(code) THEN acc
    ELSE SumLoop(code, i + 1, acc + CharValue(code[i + 1]) * Pow2(i))

CheckDigitOfSum_NoWrap(total_sum) == total_sum % 11

CheckDigitOfSum_Mod10(total_sum) == total_sum % 10

CheckDigitOfSum_Complement(total_sum) == (11 - (total_sum % 11)) % 11

\* 0 if remainder == 10 else remainder
CheckDigitOfSum(total_sum) ==
    LET remainder == total_sum % 11
    IN  IF remainder = 10 THEN 0 ELSE remainder

CheckDigitOfCleaned_AnyLength(code) ==
    IF \E i \in 1..Len(code) : CharValue(code[i]) < 0 THEN Raised("ValueError")
    ELSE Returned(CheckDigitOfSum(SumLoop(code, 0, 0)))

\* calculate_check_digit from the cleaned code on
CheckDigitOfCleaned(code) ==
    IF Len(code) # 10 THEN Raised("ValueError")
    ELSE IF \E i \in 1..Len(code) : CharValue(code[i]) < 0 THEN Raised("ValueError")
    ELSE Returned(CheckDigitOfSum(SumLoop(code, 0, 0)))

calculate_check_digit(container_code) == CheckDigitOfCleaned(SubNonAZ09(PyUpper(container_code)))

CheckDigitMatches_Any(calculated, checkdigit) == calculated.ok

\* str(calculated_checkdigit) == checkdigit; a ValueError of the
\* calculation is caught and gives False
CheckDigitMatches(calculated, checkdigit) ==
    IF ~calculated.ok THEN FALSE
    ELSE PyStr(calculated.val) = << checkdigit >>

\* a return statement of validate_container_id: the value and the line
ReturnAt(line, val) == [ val |-> val, line |-> line ]

\* validate_container_id from the cleaned identifier on
ValidateCleaned(cleaned_id) ==
    IF ~CONTAINER_ID_PATTERN(cleaned_id) THEN ReturnAt(17, FALSE)
    ELSE IF Len(cleaned_id) # CONTAINER_ID_LENGTH THEN ReturnAt(21, FALSE)
    ELSE IF cleaned_id[Len(cleaned_id)] \notin DigitChars THEN ReturnAt(26, FALSE)
    ELSE ReturnAt(30, CheckDigitMatches(
                          calculate_check_digit(SubSeq(cleaned_id, 1, Len(cleaned_id) - 1)),
                          cleaned_id[Len(cleaned_id)]))

ValidateTrace_NoClean(container_id) == ValidateCleaned(container_id)

\* the call with the return statement it left by
ValidateTrace(container_id) == ValidateCleaned(SubNonAZ09(PyUpper(container_id)))

validate_container_id(container_id) == ValidateTrace(container_id).val

clean_container_id_UpperOnly(container_id) == PyUpper(container_id)

clean_container_id_NoUpper(container_id) == SubNonAZ09(container_id)

clean_container_id_SubOnce(container_id) ==
    LET upper == PyUpper(container_id)
        other == { i \in 1..Len(upper) : ~IsAZ09(upper[i]) }
        first == CHOOSE i \in other : \A j \in other : i <= j
    IN  IF other = { } THEN upper
        ELSE SubSeq(upper, 1, first - 1) \o SubSeq(upper, first + 1, Len(upper))

clean_container_id(container_id) == SubNonAZ09(PyUpper(container_id))

(***************************************************************************)
(* State.                                                                  *)
(***************************************************************************)
VARIABLES
    \* the validator called on its own
    vin,                \* the argument string
    vop,                \* the function applied to it ("none" before the call)
    vout,               \* what the call produced
    \* one run of ContainerOCR.extract_container_data
    pc,                 \* "begin", "head" (while test), "calling" (Oracle call in flight), "done"
    max_iterations,     \* the argument max_iterations
    iteration,
    chat_history,
    request,            \* the messages of the Oracle call in flight
    calls,              \* Oracle calls made so far
    oracle_event,       \* how the last Oracle call ended
    parsed,             \* what parse_json_response returned in the last parsed round
    result,
    original_count,
    invalid_containers,
    validation_errors,
    current_count,
    outcome,            \* "Running", "Converged", "Exhausted", "LoopEnd", "Failed"
    fail_cause,         \* the statement that raised, when outcome = "Failed"
    ret,                \* the value returned to the caller
    \* one call of run_tests_parallel
    ppc,                \* "call", "collect" (the as_completed loop), "returned"
    models,
    test_cases,
    max_workers,
    future_to_job,      \* the futures in submission order, each with its job
    yielded,            \* the futures as_completed has yielded so far
    results

vvars == << vin, vop, vout >>
svars == << pc, max_iterations, iteration, chat_history, request, calls, oracle_event,
            parsed, result, original_count, invalid_containers, validation_errors,
            current_count, outcome, fail_cause, ret >>
pvars == << ppc, models, test_cases, max_workers, future_to_job, yielded, results >>
vars == << vin, vop, vout, pc, max_iterations, iteration, chat_history, request, calls,
           oracle_event, parsed, result, original_count, invalid_containers,
           validation_errors, current_count, outcome, fail_cause, ret,
           ppc, models, test_cases, max_workers, future_to_job, yielded, results >>

\* a local variable before its first assignment, the value None, no value
Unset == << >>
ValueOf(v) == << v >>

(***************************************************************************)
(* The Oracle's responses.                                                 *)
(***************************************************************************)
S_CSQU3054383 == << "C", "S", "Q", "U", "3", "0", "5", "4", "3", "8", "3" >>
S_CSQU3054384 == << "C", "S", "Q", "U", "3", "0", "5", "4", "3", "8", "4" >>
S_msku_spaced == << "m", "s", "k", "u", " ", "1", "2", "3", "4", "5", "6", "-", "5" >>
S_Unknown     == << "U", "n", "k", "n", "o", "w", "n" >>

\* a record of the JSON array: a dict with or without the key 'container_id'
Item(has_id, id, carrier) == [ has_id |-> has_id, container_id |-> id, carrier |-> carrier ]

SampleItems ==
    { Item(TRUE, S_CSQU3054383, "CROWLEY"),
      Item(TRUE, S_msku_spaced, "MAERSK"),
      Item(TRUE, S_CSQU3054384, "CROWLEY"),
      Item(TRUE, S_Unknown, "Unknown"),
      Item(TRUE, << >>, "EVERGREEN"),
      Item(FALSE, << >>, "CROWLEY") }

RECURSIVE SeqsUpTo(_, _)
SeqsUpTo(S, n) ==
    IF n = 0 THEN { << >> }
    ELSE LET shorter == SeqsUpTo(S, n - 1)
         IN  shorter \cup { Append(s, x) : s \in { t \in shorter : Len(t) = n - 1 }, x \in S }

\* JSON values: an array of records, an empty non-array ({} or ""), any
\* other non-array value
JsonArray(items) == [ kind |-> "array", items |-> items ]
JsonEmptyObject  == [ kind |-> "empty_object", items |-> << >> ]
JsonOther        == [ kind |-> "other", items |-> << >> ]

JsonValues == { JsonArray(items) : items \in SeqsUpTo(SampleItems, MaxRecords) }
                  \cup { JsonEmptyObject, JsonOther }

\* the text of a response: well-formed JSON for a value, or not JSON at all
Content(wellformed, json) == [ wellformed |-> wellformed, json |-> json ]
Malformed == Content(FALSE, JsonOther)
WellFormedContents == { Content(TRUE, j) : j \in JsonValues }

(***************************************************************************)
(* src/llm_client.py                                                       *)
(***************************************************************************)
\* json.loads
json_loads(content) ==
    IF content.wellformed THEN Returned(content.json) ELSE Raised("JSONDecodeError")

parse_json_response(content) ==
    LET r == json_loads(content)
    IN  IF ~r.ok /\ r.exc = "JSONDecodeError" THEN Raised("Exception") ELSE r

UserTurn(kind, ids, count) ==
    [ role |-> "user", kind |-> kind, invalid_ids |-> ids, count |-> count, call |-> 0 ]
AssistantTurn(n) ==
    [ role |-> "assistant", kind |-> "response", invalid_ids |-> << >>, count |-> 0, call |-> n ]

AppendTurn_KeepFirst(history, turn) == << Head(history), turn >>

\* chat_history.append(turn)
AppendTurn(history, turn) == Append(history, turn)

GetContainerId_EmptyDefault(container) ==
    IF container.has_id THEN container.container_id ELSE << >>

\* container.get('container_id', 'Unknown')
GetContainerId(container) ==
    IF container.has_id THEN container.container_id ELSE S_Unknown

RECURSIVE MapIds(_)
MapIds(containers) ==
    IF containers = << >> THEN << >>
    ELSE << GetContainerId(Head(containers)) >> \o MapIds(Tail(containers))

\* the messages correct_container_data sends: a copy of the chat history
\* followed by the correction prompt
CorrectionMessages(history, invalid, count) ==
    Append(history, UserTurn("correction", MapIds(invalid), count))

(***************************************************************************)
(* src/container_ocr.py: ContainerOCR.extract_container_data               *)
(***************************************************************************)
CleanItems_FillMissing(items) ==
    [ i \in 1..Len(items) |->
        IF items[i].has_id
        THEN [ items[i] EXCEPT !.container_id = clean_container_id(@) ]
        ELSE [ items[i] EXCEPT !.has_id = TRUE,
                               !.container_id = clean_container_id(S_Unknown) ] ]

CleanItems_FirstOnly(items) ==
    IF items = << >> THEN << >>
    ELSE LET container == Head(items)
             cleaned == IF container.has_id
                        THEN [ container EXCEPT !.container_id = clean_container_id(@) ]
                        ELSE container
         IN  << cleaned >> \o Tail(items)

\* "Clean and normalize container IDs": the first for loop of a round
RECURSIVE CleanItems(_)
CleanItems(items) ==
    IF items = << >> THEN << >>
    ELSE LET container == Head(items)
             cleaned == IF container.has_id
                        THEN [ container EXCEPT !.container_id = clean_container_id(@) ]
                        ELSE container
         IN  << cleaned >> \o CleanItems(Tail(items))

IsInvalidContainer_ShapedOnly(container) ==
    LET container_id == GetContainerId(container)
    IN  /\ container_id # S_Unknown
        /\ CONTAINER_ID_PATTERN(container_id)
        /\ ~validate_container_id(container_id)

\* the test that puts a record into invalid_containers
IsInvalidContainer(container) ==
    LET container_id == GetContainerId(container)
    IN  container_id # S_Unknown /\ ~validate_container_id(container_id)

\* "Validate container IDs and collect invalid ones"
CollectInvalid(items) == SelectSeq(items, IsInvalidContainer)

InvalidIdError(id, index) == [ kind |-> "invalid_id", id |-> id, index |-> index, count |-> 0 ]
CountDecreasedError(from, to) == [ kind |-> "count_decreased", id |-> << >>, index |-> from, count |-> to ]

\* validation_errors after the second for loop, for the records from
\* position index + 1 (index counts from 0)
RECURSIVE CollectErrors(_, _)
CollectErrors(items, index) ==
    IF index >= Len(items) THEN << >>
    ELSE LET container == items[index + 1]
             here == IF IsInvalidContainer(container)
                     THEN << InvalidIdError(GetContainerId(container), index) >>
                     ELSE << >>
         IN  here \o CollectErrors(items, index + 1)

\* len(result) if isinstance(result, list) else 0
CountOf(json) == IF json.kind = "array" THEN Len(json.items) ELSE 0

OriginalCountAfter_EveryRound(iter, count, orig) == ValueOf(count)

\* "if iteration == 0: original_count = len(result) if isinstance(result, list) else 0"
OriginalCountAfter(iter, count, orig) == IF iter = 0 THEN ValueOf(count) ELSE orig

CountDecreased_Never(iter, cur, orig) == FALSE

CountDecreased_AnyChange(iter, cur, orig) == iter > 0 /\ cur # orig

\* "if iteration > 0 and current_count < original_count"
CountDecreased(iter, cur, orig) == iter > 0 /\ cur < orig

ConvergedCond_CountAbove(invalid, cur, orig) == invalid = << >> /\ cur > orig

ConvergedCond_CountOnly(invalid, cur, orig) == cur >= orig

ConvergedCond_InvalidOnly(invalid, cur, orig) == invalid = << >>

\* "if not invalid_containers and current_count >= original_count: break"
ConvergedCond(invalid, cur, orig) == invalid = << >> /\ cur >= orig

LastIteration_OffByOne(iter, max) == iter = max

\* "if iteration == max_iterations - 1: break"
LastIteration(iter, max) == iter = max - 1

\* "while iteration < max_iterations"
WhileCond(iter, max) == iter < max

NextIteration_Stuck(iter) == iter

\* "iteration += 1"
NextIteration(iter) == iter + 1

InnerHandlerCatches_All(exc) == TRUE

\* the inner handler "except json.JSONDecodeError"
InnerHandlerCatches(exc) == exc = "JSONDecodeError"

\* an exception raised inside the loop body: the inner handler retries a
\* JSONDecodeError unless this is the last iteration; anything else reaches
\* the outer "except Exception", which raises to the caller
RaiseInLoop(exc, cause) ==
    IF InnerHandlerCatches(exc) /\ ~LastIteration(iteration, max_iterations)
    THEN /\ pc' = "head"
         /\ iteration' = NextIteration(iteration)
         /\ UNCHANGED << outcome, fail_cause, ret >>
    ELSE /\ pc' = "done"
         /\ outcome' = "Failed"
         /\ fail_cause' = cause
         /\ UNCHANGED << iteration, ret >>

\* lines 50-80: validate and encode the image, build the prompt and the
\* chat history
Begin ==
    /\ pc = "begin"
    /\ pc' = "head"
    /\ chat_history' = << UserTurn("initial", << >>, 0) >>
    /\ result' = Unset
    /\ iteration' = 0
    /\ UNCHANGED << max_iterations, request, calls, oracle_event, parsed, original_count,
                    invalid_containers, validation_errors, current_count, outcome,
                    fail_cause, ret >>
    /\ UNCHANGED vvars
    /\ UNCHANGED pvars

\* validate_image or encode_image raises
BeginFails ==
    /\ pc = "begin"
    /\ pc' = "done"
    /\ outcome' = "Failed"
    /\ fail_cause' = "image"
    /\ UNCHANGED << max_iterations, iteration, chat_history, request, calls, oracle_event,
                    parsed, result, original_count, invalid_containers, validation_errors,
                    current_count, ret >>
    /\ UNCHANGED vvars
    /\ UNCHANGED pvars

\* the while test fails: "return result"
LoopEnd ==
    /\ pc = "head"
    /\ ~WhileCond(iteration, max_iterations)
    /\ pc' = "done"
    /\ outcome' = "LoopEnd"
    /\ ret' = ValueOf(result)
    /\ UNCHANGED << max_iterations, iteration, chat_history, request, calls, oracle_event,
                    parsed, result, original_count, invalid_containers, validation_errors,
                    current_count, fail_cause >>
    /\ UNCHANGED vvars
    /\ UNCHANGED pvars

\* iteration == 0: extract_text_from_image sends the prompt and the image
SendInitial ==
    /\ pc = "head"
    /\ WhileCond(iteration, max_iterations)
    /\ iteration = 0
    /\ calls <= MaxIterations
    /\ pc' = "calling"
    /\ request' = << UserTurn("initial", << >>, 0) >>
    /\ calls' = calls + 1
    /\ UNCHANGED << max_iterations, iteration, chat_history, oracle_event, parsed, result,
                    original_count, invalid_containers, validation_errors, current_count,
                    outcome, fail_cause, ret >>
    /\ UNCHANGED vvars
    /\ UNCHANGED pvars

\* iteration > 0: correct_container_data sends the chat history and the
\* correction prompt; reading an unassigned local raises before the call
SendCorrection ==
    /\ pc = "head"
    /\ WhileCond(iteration, max_iterations)
    /\ iteration # 0
    /\ calls <= MaxIterations
    /\ IF invalid_containers = Unset \/ original_count = Unset
       THEN /\ RaiseInLoop("UnboundLocalError", "unbound")
            /\ UNCHANGED << request, calls >>
       ELSE /\ pc' = "calling"
            /\ request' = CorrectionMessages(chat_history, invalid_containers[1], original_count[1])
            /\ calls' = calls + 1
            /\ UNCHANGED << iteration, outcome, fail_cause, ret >>
    /\ UNCHANGED << max_iterations, chat_history, oracle_event, parsed, result,
                    original_count, invalid_containers, validation_errors, current_count >>
    /\ UNCHANGED vvars
    /\ UNCHANGED pvars

\* the Oracle call raises (transport or provider failure): the client
\* re-raises it as Exception
OracleFails ==
    /\ pc = "calling"
    /\ oracle_event' = "call_failed"
    /\ request' = << >>
    /\ RaiseInLoop("Exception", "oracle_call")
    /\ UNCHANGED << max_iterations, chat_history, calls, parsed, result, original_count,
                    invalid_containers, validation_errors, current_count >>
    /\ UNCHANGED vvars
    /\ UNCHANGED pvars

\* the Oracle answers with text that json.loads rejects
ReplyUnparseable ==
    /\ pc = "calling"
    /\ oracle_event' = "unparseable"
    /\ request' = << >>
    /\ chat_history' = AppendTurn(chat_history, AssistantTurn(calls))
    /\ RaiseInLoop(parse_json_response(Malformed).exc, "parse")
    /\ UNCHANGED << max_iterations, calls, parsed, result, original_count,
                    invalid_containers, validation_errors, current_count >>
    /\ UNCHANGED vvars
    /\ UNCHANGED pvars

\* lines 114-129 on a parsed value: the cleaned records, the records
\* collected as invalid, and the errors logged for them
CleanAndValidate(json) ==
    LET cleaned == [ json EXCEPT !.items = CleanItems(@) ]
    IN  [ cleaned |-> cleaned,
          invalid |-> CollectInvalid(cleaned.items),
          errors  |-> CollectErrors(cleaned.items, 0) ]

\* lines 114-129 for each value the Oracle can answer with
CleanAndValidateOf == [ json \in JsonValues |-> CleanAndValidate(json) ]

\* the Oracle answers with well-formed JSON: lines 107-157 and, after a
\* break, "return result"
ReplyParsed(content) ==
    /\ pc = "calling"
    /\ content.wellformed
    /\ oracle_event' = "parsed"
    /\ request' = << >>
    /\ chat_history' = AppendTurn(chat_history, AssistantTurn(calls))
    /\ LET json    == parse_json_response(content).val
           count   == CountOf(json)
           orig    == OriginalCountAfter(iteration, count, original_count)
           round   == CleanAndValidateOf[json]
           cleaned == round.cleaned
           invalid == round.invalid
           errors  == round.errors
       IN  /\ parsed' = ValueOf(json)
           /\ original_count' = orig
           /\ IF json.kind = "other"
              THEN \* iterating or reading the value raises TypeError / AttributeError
                   /\ result' = ValueOf(json)
                   /\ RaiseInLoop("TypeError", "not_records")
                   /\ UNCHANGED << invalid_containers, validation_errors, current_count >>
              ELSE /\ result' = ValueOf(cleaned)
                   /\ invalid_containers' = ValueOf(invalid)
                   /\ current_count' = count
                   /\ IF iteration > 0 /\ orig = Unset
                      THEN /\ validation_errors' = errors
                           /\ RaiseInLoop("UnboundLocalError", "unbound")
                      ELSE /\ validation_errors' =
                                IF CountDecreased(iteration, count, orig[1])
                                THEN Append(errors, CountDecreasedError(orig[1], count))
                                ELSE errors
                           /\ IF ConvergedCond(invalid, count, orig[1])
                              THEN /\ pc' = "done"
                                   /\ outcome' = "Converged"
                                   /\ ret' = ValueOf(ValueOf(cleaned))
                                   /\ UNCHANGED << iteration, fail_cause >>
                              ELSE IF LastIteration(iteration, max_iterations)
                              THEN /\ pc' = "done"
                                   /\ outcome' = "Exhausted"
                                   /\ ret' = ValueOf(ValueOf(cleaned))
                                   /\ UNCHANGED << iteration, fail_cause >>
                              ELSE /\ pc' = "head"
                                   /\ iteration' = NextIteration(iteration)
                                   /\ UNCHANGED << outcome, fail_cause, ret >>
    /\ UNCHANGED << max_iterations, calls >>
    /\ UNCHANGED vvars
    /\ UNCHANGED pvars

(***************************************************************************)
(* The validator's functions called on their own.                          *)
(***************************************************************************)
S_CSQU305438  == << "C", "S", "Q", "U", "3", "0", "5", "4", "3", "8" >>
S_1234567890  == << "1", "2", "3", "4", "5", "6", "7", "8", "9", "0" >>

BaseStrings == << S_CSQU3054383, S_CSQU305438, S_1234567890, S_msku_spaced, S_Unknown >>

ReplaceAt(s, p, c) == [ s EXCEPT ![p] = c ]
InsertAt(s, p, c)  == SubSeq(s, 1, p) \o << c >> \o SubSeq(s, p + 1, Len(s))
DeleteAt(s, p)     == SubSeq(s, 1, p - 1) \o SubSeq(s, p + 1, Len(s))

OneEdit(s) ==
    { ReplaceAt(s, p, c) : p \in 1..Len(s), c \in EditChars }
        \cup { InsertAt(s, p, c) : p \in 0..Len(s), c \in EditChars }
        \cup { DeleteAt(s, p) : p \in 1..Len(s) }

ValidatorInputs ==
    UNION { { BaseStrings[b] } \cup OneEdit(BaseStrings[b]) : b \in 1..NumBases }

Call_calculate_check_digit ==
    /\ vop = "none"
    /\ vop' = "calculate_check_digit"
    /\ vout' = ValueOf(calculate_check_digit(vin))
    /\ UNCHANGED vin
    /\ UNCHANGED svars
    /\ UNCHANGED pvars

Call_validate_container_id ==
    /\ vop = "none"
    /\ vop' = "validate_container_id"
    /\ vout' = ValueOf(ValidateTrace(vin))
    /\ UNCHANGED vin
    /\ UNCHANGED svars
    /\ UNCHANGED pvars

Call_clean_container_id ==
    /\ vop = "none"
    /\ vop' = "clean_container_id"
    /\ vout' = ValueOf(clean_container_id(vin))
    /\ UNCHANGED vin
    /\ UNCHANGED svars
    /\ UNCHANGED pvars

\* clean_container_id(clean_container_id(x))
Call_clean_twice ==
    /\ vop = "none"
    /\ vop' = "clean_twice"
    /\ vout' = ValueOf([ once  |-> clean_container_id(vin),
                         twice |-> clean_container_id(clean_container_id(vin)) ])
    /\ UNCHANGED vin
    /\ UNCHANGED svars
    /\ UNCHANGED pvars

\* validate_container_id(x) next to validate_container_id(clean_container_id(x))
Call_validate_cleaned ==
    /\ vop = "none"
    /\ vop' = "validate_cleaned"
    /\ vout' = ValueOf([ raw     |-> ValidateTrace(vin).val,
                         cleaned |-> ValidateTrace(clean_container_id(vin)).val ])
    /\ UNCHANGED vin
    /\ UNCHANGED svars
    /\ UNCHANGED pvars

\* calculate_check_digit of a body of 4 letters and 6 digits and of the
\* body with one character replaced by another of its kind
Call_check_digit_after_replace ==
    /\ vop = "none"
    /\ CONTAINER_ID_PATTERN(vin \o << "0" >>)
    /\ \E pos \in 1..10 :
          \E char \in (IF pos <= 4 THEN UpperLetters ELSE DigitChars) \ { vin[pos] } :
             vout' = ValueOf([ pos    |-> pos,
                              char   |-> char,
                              before |-> calculate_check_digit(vin),
                              after  |-> calculate_check_digit(ReplaceAt(vin, pos, char)) ])
    /\ vop' = "check_digit_after_replace"
    /\ UNCHANGED vin
    /\ UNCHANGED svars
    /\ UNCHANGED pvars

\* validate_container_id(body + d) for each of the ten digits d
Call_validate_each_digit ==
    /\ vop = "none"
    /\ CONTAINER_ID_PATTERN(vin \o << "0" >>)
    /\ vop' = "validate_each_digit"
    /\ vout' = ValueOf([ d \in 0..9 |-> ValidateTrace(vin \o << DigitSeq[d + 1] >>).val ])
    /\ UNCHANGED vin
    /\ UNCHANGED svars
    /\ UNCHANGED pvars

\* validate_container_id(body + str(calculate_check_digit(body)))
Call_validate_with_check_digit ==
    /\ vop = "none"
    /\ calculate_check_digit(vin).ok
    /\ vop' = "validate_with_check_digit"
    /\ vout' = ValueOf(ValidateTrace(vin \o PyStr(calculate_check_digit(vin).val)))
    /\ UNCHANGED vin
    /\ UNCHANGED svars
    /\ UNCHANGED pvars

\* run_tests_parallel before it is called, with no jobs
DefaultParallel ==
    /\ ppc = "call"
    /\ models = << >>
    /\ test_cases = << >>
    /\ max_workers = 1
    /\ future_to_job = << >>
    /\ yielded = { }
    /\ results = << >>

DefaultSession ==
    /\ pc = "begin"
    /\ iteration = 0
    /\ chat_history = << >>
    /\ request = << >>
    /\ calls = 0
    /\ oracle_event = "none"
    /\ parsed = Unset
    /\ result = Unset
    /\ original_count = Unset
    /\ invalid_containers = Unset
    /\ validation_errors = << >>
    /\ current_count = 0
    /\ outcome = "Running"
    /\ fail_cause = "none"
    /\ ret = Unset

Init ==
    /\ max_iterations \in 0..MaxIterations
    /\ DefaultSession
    /\ DefaultParallel
    /\ vin = << >>
    /\ vop = "none"
    /\ vout = Unset

Next ==
    \/ Begin
    \/ BeginFails
    \/ LoopEnd
    \/ SendInitial
    \/ SendCorrection
    \/ OracleFails
    \/ ReplyUnparseable
    \/ \E content \in WellFormedContents : ReplyParsed(content)

Spec == Init /\ [][Next]_vars

\* a call blocks until the Oracle answers or fails, and the loop body runs
\* to its end: a session that can take a step takes one
SpecLive == Spec /\ WF_vars(Next)

InitValidator ==
    /\ vin \in ValidatorInputs
    /\ vop = "none"
    /\ vout = Unset
    /\ max_iterations = 0
    /\ DefaultSession
    /\ DefaultParallel

NextValidator ==
    \/ Call_calculate_check_digit
    \/ Call_validate_container_id
    \/ Call_clean_container_id
    \/ Call_clean_twice
    \/ Call_validate_each_digit
    \/ Call_check_digit_after_replace
    \/ Call_validate_cleaned
    \/ Call_validate_with_check_digit

SpecValidator == InitValidator /\ [][NextValidator]_vars

(***************************************************************************)
(* src/src/utils.py: clean_response_content, called on its own.            *)
(***************************************************************************)
\* the character ` is written "backtick"
Fence     == << "backtick", "backtick", "backtick" >>
FenceJson == << "backtick", "backtick", "backtick", "j", "s", "o", "n" >>

\* the white space str.strip() removes, as far as the texts below hold it
Whitespace == { " ", "\n" }

\* content.startswith(prefix)
StartsWith(content, prefix) ==
    Len(content) >= Len(prefix) /\ SubSeq(content, 1, Len(prefix)) = prefix

\* str.lstrip(chars), str.rstrip(chars), str.strip(chars): chars is a set of
\* characters, not a prefix or suffix
RECURSIVE LStrip(_, _)
LStrip(s, chars) ==
    IF s # << >> /\ Head(s) \in chars THEN LStrip(Tail(s), chars) ELSE s

RECURSIVE RStrip(_, _)
RStrip(s, chars) ==
    IF s # << >> /\ s[Len(s)] \in chars THEN RStrip(SubSeq(s, 1, Len(s) - 1), chars) ELSE s

PyStrip(s, chars) == RStrip(LStrip(s, chars), chars)

clean_response_content(content) ==
    IF StartsWith(content, FenceJson)
    THEN PyStrip(PyStrip(PyStrip(content, Range(FenceJson)), Range(Fence)), Whitespace)
    ELSE IF StartsWith(content, Fence)
    THEN PyStrip(PyStrip(content, Range(Fence)), Whitespace)
    ELSE content

\* the pieces a response text is made of
TextTokens ==
    { Fence, << "backtick" >>, << "j", "s", "o", "n" >>, << " " >>, << "\n" >>, << "[", "]" >> }

RECURSIVE TextsUpTo(_)
TextsUpTo(n) ==
    IF n = 0 THEN { << >> }
    ELSE LET shorter == TextsUpTo(n - 1)
         IN  shorter \cup { t \o token : t \in shorter, token \in TextTokens }

ResponseTexts == TextsUpTo(MaxTokens)

Call_clean_response_content ==
    /\ vop = "none"
    /\ vop' = "clean_response_content"
    /\ vout' = ValueOf(clean_response_content(vin))
    /\ UNCHANGED vin
    /\ UNCHANGED svars
    /\ UNCHANGED pvars

\* clean_response_content(clean_response_content(t))
Call_clean_response_twice ==
    /\ vop = "none"
    /\ vop' = "clean_response_twice"
    /\ vout' = ValueOf([ once  |-> clean_response_content(vin),
                         twice |-> clean_response_content(clean_response_content(vin)) ])
    /\ UNCHANGED vin
    /\ UNCHANGED svars
    /\ UNCHANGED pvars

InitClean ==
    /\ vin \in ResponseTexts
    /\ vop = "none"
    /\ vout = Unset
    /\ max_iterations = 0
    /\ DefaultSession
    /\ DefaultParallel

NextClean ==
    \/ Call_clean_response_content
    \/ Call_clean_response_twice

SpecClean == InitClean /\ [][NextClean]_vars

(***************************************************************************)
(* src/evaluate.py: run_tests_parallel and its worker threads.             *)
(***************************************************************************)
AllModels    == << "model_a", "model_b", "model_c" >>
AllTestCases == << "case_1", "case_2" >>

\* how the body of test_single_case ends for a job: run_main_py returns
\* ("ok"), raises because main.py failed ("error") or timed out ("timeout"),
\* or an exception leaves test_single_case itself ("escaped")
JobOutcomes == { "ok", "error", "timeout", "escaped" }

\* one entry of results
Entry(model, test_case, success, error) ==
    [ model |-> model, test_case |-> test_case, success |-> success, error |-> error ]

\* "for model in models: for test_case in test_cases: test_jobs.append(...)"
TestJobs(ms, tcs) ==
    [ k \in 1..(Len(ms) * Len(tcs)) |->
         << ms[((k - 1) \div Len(tcs)) + 1], tcs[((k - 1) % Len(tcs)) + 1] >> ]

test_single_case(model, test_case, how) ==
    IF how = "ok" THEN Returned(Entry(model, test_case, TRUE, "none"))
    ELSE IF how \in { "error", "timeout" } THEN Returned(Entry(model, test_case, FALSE, how))
    ELSE Raised("Exception")

\* a future: its job, its state ("pending", "running", "finished") and,
\* once finished, what the call of test_single_case produced
Future(job, state, value) == [ job |-> job, state |-> state, value |-> value ]

ResultsAfter_DropUnexpected(res, job, value) ==
    IF value.ok THEN Append(res, value.val) ELSE res

\* the body of the as_completed loop for one future: the try appends
\* future.result(), the except appends an entry of its own
ResultsAfter(res, job, value) ==
    IF value.ok THEN Append(res, value.val)
    ELSE Append(res, Entry(job[1], job[2], FALSE, "unexpected"))

Running == { i \in 1..Len(future_to_job) : future_to_job[i].state = "running" }

\* "future_to_job = {executor.submit(...): (model, test_case) for ...}"
Submit ==
    /\ ppc = "call"
    /\ ppc' = "collect"
    /\ future_to_job' = [ k \in 1..(Len(models) * Len(test_cases)) |->
                             Future(TestJobs(models, test_cases)[k], "pending", Unset) ]
    /\ UNCHANGED << models, test_cases, max_workers, yielded, results >>
    /\ UNCHANGED vvars
    /\ UNCHANGED svars

\* a free worker thread of the executor takes the oldest pending job
WorkerStart(i) ==
    /\ ppc = "collect"
    /\ future_to_job[i].state = "pending"
    /\ \A j \in 1..(i - 1) : future_to_job[j].state # "pending"
    /\ Cardinality(Running) < max_workers
    /\ future_to_job' = [ future_to_job EXCEPT ![i].state = "running" ]
    /\ UNCHANGED << ppc, models, test_cases, max_workers, yielded, results >>
    /\ UNCHANGED vvars
    /\ UNCHANGED svars

\* a worker thread finishes its call of test_single_case
WorkerFinish(i, how) ==
    /\ ppc = "collect"
    /\ future_to_job[i].state = "running"
    /\ future_to_job' =
          [ future_to_job EXCEPT
              ![i] = Future(@.job, "finished",
                            ValueOf(test_single_case(@.job[1], @.job[2], how))) ]
    /\ UNCHANGED << ppc, models, test_cases, max_workers, yielded, results >>
    /\ UNCHANGED vvars
    /\ UNCHANGED svars

\* as_completed yields a finished future, and the loop body handles it
Collect(i) ==
    /\ ppc = "collect"
    /\ future_to_job[i].state = "finished"
    /\ i \notin yielded
    /\ yielded' = yielded \cup { i }
    /\ results' = ResultsAfter(results, future_to_job[i].job, future_to_job[i].value[1])
    /\ UNCHANGED << ppc, models, test_cases, max_workers, future_to_job >>
    /\ UNCHANGED vvars
    /\ UNCHANGED svars

\* as_completed is exhausted, the executor is shut down: "return results"
ReturnResults ==
    /\ ppc = "collect"
    /\ yielded = 1..Len(future_to_job)
    /\ ppc' = "returned"
    /\ UNCHANGED << models, test_cases, max_workers, future_to_job, yielded, results >>
    /\ UNCHANGED vvars
    /\ UNCHANGED svars

InitParallel ==
    /\ \E n \in 0..Len(AllModels), m \in 0..Len(AllTestCases) :
          /\ n * m <= MaxJobs
          /\ models = SubSeq(AllModels, 1, n)
          /\ test_cases = SubSeq(AllTestCases, 1, m)
    /\ max_workers \in { 1, 2 }
    /\ ppc = "call"
    /\ future_to_job = << >>
    /\ yielded = { }
    /\ results = << >>
    /\ vin = << >>
    /\ vop = "none"
    /\ vout = Unset
    /\ max_iterations = 0
    /\ DefaultSession

NextParallel ==
    \/ Submit
    \/ \E i \in 1..Len(future_to_job) : WorkerStart(i)
    \/ \E i \in 1..Len(future_to_job) : \E how \in JobOutcomes : WorkerFinish(i, how)
    \/ \E i \in 1..Len(future_to_job) : Collect(i)
    \/ ReturnResults

SpecParallel == InitParallel /\ [][NextParallel]_vars

(***************************************************************************)
(* src/evaluate.py: calculate_metrics.                                     *)
(***************************************************************************)
\* the characters of the model in code point order
CodePointSeq == << " ", "-" >> \o DigitSeq \o UpperSeq \o LowerSeq \o << "eszett" >>

\* s <= t for two Python strings
RECURSIVE StrLeq(_, _)
StrLeq(s, t) ==
    IF s = << >> THEN TRUE
    ELSE IF t = << >> THEN FALSE
    ELSE IF Head(s) = Head(t) THEN StrLeq(Tail(s), Tail(t))
    ELSE IndexOf(CodePointSeq, Head(s)) < IndexOf(CodePointSeq, Head(t))

\* sorted(list(ids)) for a set of strings
RECURSIVE SortedList(_)
SortedList(ids) ==
    IF ids = { } THEN << >>
    ELSE LET least == CHOOSE x \in ids : \A y \in ids : StrLeq(x, y)
         IN  << least >> \o SortedList(ids \ { least })

\* a Python number that is the int 0 or the quotient of two ints, in lowest terms
RECURSIVE GCD(_, _)
GCD(a, b) == IF b = 0 THEN a ELSE GCD(b, a % b)
Number(num, den) == [ num |-> num \div GCD(num, den), den |-> den \div GCD(num, den) ]
Zero == Number(0, 1)

\* a / b, a * b and a + b; dividing by zero raises
Divide(a, b) ==
    IF b.num = 0 THEN Raised("ZeroDivisionError")
    ELSE Returned(Number(a.num * b.den, a.den * b.num))
Times(a, b) == Number(a.num * b.num, a.den * b.den)
Plus(a, b)  == Number(a.num * b.den + b.num * a.den, a.den * b.den)

\* "item.get('container_id', '')"
GetIdOrEmpty(item) == IF item.has_id THEN item.container_id ELSE << >>

\* "set(item.get('container_id', '') for item in items)"
IdSet(items) == { GetIdOrEmpty(items[i]) : i \in 1..Len(items) }

NonEmptyIds_KeepEmpty(items) == IdSet(items)

\* the set after "discard('')"
NonEmptyIds(items) == IdSet(items) \ { << >> }

\* "true_positives / len(ids) if ids else 0"
Ratio(true_positives, ids) ==
    IF ids # { } THEN Divide(Number(true_positives, 1), Number(Cardinality(ids), 1))
    ELSE Returned(Zero)

\* "2 * (precision * recall) / (precision + recall) if (precision + recall) > 0 else 0"
F1Score(precision, recall) ==
    IF Plus(precision, recall).num > 0
       THEN Divide(Times(Number(2, 1), Times(precision, recall)), Plus(precision, recall))
       ELSE Returned(Zero)

calculate_metrics(predicted, expected) ==
    LET predicted_ids   == NonEmptyIds(predicted)
        expected_ids    == NonEmptyIds(expected)
        true_positives  == Cardinality(predicted_ids \cap expected_ids)
        false_positives == Cardinality(predicted_ids \ expected_ids)
        false_negatives == Cardinality(expected_ids \ predicted_ids)
        precision       == Ratio(true_positives, predicted_ids)
        recall          == Ratio(true_positives, expected_ids)
    IN  IF ~precision.ok THEN precision
        ELSE IF ~recall.ok THEN recall
        ELSE LET f1_score == F1Score(precision.val, recall.val)
             IN  IF ~f1_score.ok THEN f1_score
                 ELSE Returned(
                        [ total_predicted |-> Cardinality(predicted_ids),
                          total_expected  |-> Cardinality(expected_ids),
                          true_positives  |-> true_positives,
                          false_positives |-> false_positives,
                          false_negatives |-> false_negatives,
                          precision       |-> precision.val,
                          recall          |-> recall.val,
                          f1_score        |-> f1_score.val,
                          predicted_ids   |-> SortedList(predicted_ids),
                          expected_ids    |-> SortedList(expected_ids),
                          missing_ids     |-> SortedList(expected_ids \ predicted_ids),
                          extra_ids       |-> SortedList(predicted_ids \ expected_ids) ])

\* the records of a predicted or an expected list: three identifiers, one of
\* them under two carriers, an empty identifier and a record without the key
MetricItems ==
    { Item(TRUE, S_CSQU3054383, "CROWLEY"),
      Item(TRUE, S_CSQU3054383, "MAERSK"),
      Item(TRUE, S_CSQU3054384, "CROWLEY"),
      Item(TRUE, S_CSQU305438, "CROWLEY"),
      Item(TRUE, << >>, "EVERGREEN"),
      Item(FALSE, << >>, "CROWLEY") }

MetricInputs ==
    { [ predicted |-> p, expected |-> e ] :
         p \in SeqsUpTo(MetricItems, MaxRecords), e \in SeqsUpTo(MetricItems, MaxRecords) }

Call_calculate_metrics ==
    /\ vop = "none"
    /\ vop' = "calculate_metrics"
    /\ vout' = ValueOf(calculate_metrics(vin.predicted, vin.expected))
    /\ UNCHANGED vin
    /\ UNCHANGED svars
    /\ UNCHANGED pvars

InitMetrics ==
    /\ vin \in MetricInputs
    /\ vop = "none"
    /\ vout = Unset
    /\ max_iterations = 0
    /\ DefaultSession
    /\ DefaultParallel

NextMetrics == Call_calculate_metrics

SpecMetrics == InitMetrics /\ [][NextMetrics]_vars

(***************************************************************************)
(* The check digit as the standard states it, for the properties below.    *)
(***************************************************************************)
\* 4 upper-case letters followed by n digits
IsLettersThenDigits(s, n) ==
    /\ Len(s) = 4 + n
    /\ \A i \in 1..4 : s[i] \in UpperLetters
    /\ \A i \in 5..(4 + n) : s[i] \in DigitChars

\* the k-th letter's value: 10 for the first, then the next integer that is
\* not a multiple of 11
RECURSIVE StdLetterValue(_)
StdLetterValue(k) ==
    IF k = 1 THEN 10
    ELSE LET n == StdLetterValue(k - 1) + 1
         IN  IF n % 11 = 0 THEN n + 1 ELSE n

StdCharValue(c) ==
    IF c \in DigitChars THEN IndexOf(DigitSeq, c) - 1 ELSE StdLetterValue(IndexOf(UpperSeq, c))

StdWeights == << 1, 2, 4, 8, 16, 32, 64, 128, 256, 512 >>

RECURSIVE StdSum(_, _)
StdSum(body, n) ==
    IF n = 0 THEN 0 ELSE StdSum(body, n - 1) + StdCharValue(body[n]) * StdWeights[n]

StdCheckDigit(body) ==
    LET r == StdSum(body, 10) % 11
    IN  IF r = 10 THEN 0 ELSE r

(***************************************************************************)
(* Properties of the validator (specification SpecValidator).              *)
(***************************************************************************)
\* C1: for a body of 4 upper-case letters and 6 digits, calculate_check_digit
\* returns the sum of value(c_i) * 2^i over i = 0..9, modulo 11, with a
\* remainder of 10 mapped to 0.
C1_CheckDigitFormula ==
    (vop = "calculate_check_digit" /\ IsLettersThenDigits(vin, 6))
        => vout = ValueOf(Returned(StdCheckDigit(vin)))

\* a body whose weighted sum leaves the remainder 10 got the check digit 0
C1_Witness ==
    /\ vop = "calculate_check_digit"
    /\ IsLettersThenDigits(vin, 6)
    /\ StdSum(vin, 10) % 11 = 10
    /\ vout = ValueOf(Returned(0))

\* C2: a body of 4 letters and 6 digits followed by the decimal digit
\* calculate_check_digit returns for it is accepted by validate_container_id.
C2_BodyWithCheckDigitIsValid ==
    (vop = "validate_with_check_digit" /\ IsLettersThenDigits(vin, 6))
        => vout[1].val = TRUE

\* the round trip on a body whose remainder is 10
C2_Witness ==
    /\ vop = "validate_with_check_digit"
    /\ IsLettersThenDigits(vin, 6)
    /\ StdSum(vin, 10) % 11 = 10
    /\ vout[1].val = TRUE

\* C3: validate_container_id accepts an identifier exactly when its
\* normalized form is 4 letters followed by 7 digits (so 11 characters) and
\* the last digit is the check digit of the first 10 characters; another
\* length or shape is rejected by the format checks, a right shape with
\* another last digit by the check digit comparison.
C3_ValidateIff ==
    vop = "validate_container_id" =>
        LET n      == clean_container_id(vin)
            shaped == IsLettersThenDigits(n, 7)
            digit  == StdCharValue(n[11])
        IN  /\ vout[1].val = (shaped /\ digit = StdCheckDigit(SubSeq(n, 1, 10)))
            /\ ~shaped => vout[1].line \in { 17, 21 }
            /\ (shaped /\ ~vout[1].val) => vout[1].line = 30

\* an identifier that is not in normalized form is accepted
C3_Witness ==
    /\ vop = "validate_container_id"
    /\ clean_container_id(vin) # vin
    /\ vout[1].val = TRUE

\* C4: LETTER_VALUES gives every letter A..Z a value, A = 10, each next
\* letter the next integer that is not a multiple of 11, Z = 38; the values
\* strictly increase and none is divisible by 11.  So every letter of an
\* input of calculate_check_digit is valued by that rule.
C4_LetterTable ==
    /\ DOMAIN LETTER_VALUES = UpperLetters
    /\ \A k \in 1..26 : LETTER_VALUES[UpperSeq[k]] = StdLetterValue(k)
    /\ \A k \in 1..25 : LETTER_VALUES[UpperSeq[k]] < LETTER_VALUES[UpperSeq[k + 1]]
    /\ \A c \in UpperLetters : LETTER_VALUES[c] % 11 # 0
    /\ { 11, 22, 33 } \cap Range(LETTER_VALUES) = { }
    /\ LETTER_VALUES["A"] = 10 /\ LETTER_VALUES["Z"] = 38
    /\ \A i \in 1..Len(vin) :
          vin[i] \in UpperLetters => CharValue(vin[i]) = StdLetterValue(IndexOf(UpperSeq, vin[i]))

\* the check digit was calculated for a body with a letter that follows a
\* skipped value
C4_Witness ==
    /\ vop = "calculate_check_digit"
    /\ vout[1].ok
    /\ \E i \in 1..Len(vin) : vin[i] \in { "L", "V" }

(***************************************************************************)
(* Properties of a session (specifications Spec and SpecLive).             *)
(***************************************************************************)
\* the state right after a round whose response was parsed and validated:
\* result, invalid_containers, current_count are that round's, and calls is
\* its number
RoundValidated ==
    /\ oracle_event = "parsed"
    /\ pc \in { "head", "done" }
    /\ outcome # "Failed"

\* the sentinel "Unknown" in any letter case
IsUnknownSentinel(id) == PyUpper(id) = PyUpper(S_Unknown)

\* C5: a record whose identifier is "Unknown" (any letter case) is never in
\* the invalid subset, and a response whose identifiers are all
\* checksum-valid or "Unknown" converges in its round.
C5_UnknownNeverInvalid ==
    RoundValidated =>
        /\ \A i \in 1..Len(invalid_containers[1]) :
              ~IsUnknownSentinel(GetContainerId(invalid_containers[1][i]))
        /\ ( /\ \A i \in 1..Len(parsed[1].items) :
                   LET id == GetContainerId(parsed[1].items[i])
                   IN  IsUnknownSentinel(id) \/ validate_container_id(id)
             /\ current_count >= original_count[1] )
           => outcome = "Converged"

\* C6: a session fails on an unparseable response only when that response
\* used the last iteration, that is after max_iterations Oracle calls.
C6_ParseFailureRetried ==
    (outcome = "Failed" /\ fail_cause = "parse") => calls = max_iterations

\* C7: a validated round ends the session as Converged exactly when its
\* invalid subset is empty and its count is at least original_count; the
\* converged session has returned that round's records, in the order parsed,
\* and makes no further Oracle call.
C7_ConvergedState ==
    /\ RoundValidated =>
          ( outcome = "Converged" <=>
              (invalid_containers[1] = << >> /\ current_count >= original_count[1]) )
    /\ outcome = "Converged" =>
          /\ pc = "done"
          /\ request = << >>
          /\ ret = ValueOf(result)
          /\ Len(result[1].items) = Len(parsed[1].items)
          /\ \A i \in 1..Len(result[1].items) :
                /\ result[1].items[i].carrier = parsed[1].items[i].carrier
                /\ result[1].items[i].has_id = parsed[1].items[i].has_id
                /\ result[1].items[i].container_id =
                       clean_container_id(parsed[1].items[i].container_id)

C7_Converged ==
    /\ []C7_ConvergedState
    /\ [][outcome = "Converged" => (calls' = calls /\ ret' = ret /\ pc' = pc)]_vars

\* a correction round converged on two different records
C7_Witness ==
    /\ outcome = "Converged"
    /\ calls = 2
    /\ Len(result[1].items) = 2
    /\ result[1].items[1] # result[1].items[2]

\* C8 as stated: a round after the first with fewer records than the first
\* round, all of them valid, converges.
C8_RegressionDoesNotBlock ==
    ( /\ RoundValidated
      /\ calls >= 2
      /\ current_count < original_count[1]
      /\ current_count >= 1
      /\ \A i \in 1..Len(result[1].items) :
            validate_container_id(GetContainerId(result[1].items[i])) )
        => outcome = "Converged"

\* C8 amended: a round after the first with fewer records than the first
\* round logs the count decrease and does not converge, whatever its
\* identifiers: another correction round follows while iterations remain,
\* and on the last iteration the round's set is returned as Exhausted.
C8_RegressionBlocks ==
    (RoundValidated /\ calls >= 2 /\ current_count < original_count[1]) =>
        /\ outcome # "Converged"
        /\ CountDecreasedError(original_count[1], current_count) \in Range(validation_errors)
        /\ pc = "head" => (iteration < max_iterations /\ iteration = calls)
        /\ pc = "done" => (outcome = "Exhausted" /\ calls = max_iterations
                              /\ ret = ValueOf(result))

\* round 2 returned fewer records, all valid, and the loop goes on
C8_Witness ==
    /\ RoundValidated
    /\ calls = 2
    /\ current_count < original_count[1]
    /\ invalid_containers[1] = << >>
    /\ current_count > 0
    /\ pc = "head"

\* C9: a session terminates, makes at most max_iterations Oracle calls, and
\* has made exactly max_iterations calls when it ends Exhausted.
C9_Terminates ==
    /\ <>(pc = "done")
    /\ [](calls <= max_iterations)
    /\ [](outcome = "Exhausted" => calls = max_iterations)

\* a session ended Exhausted after more than one round
C9_Witness ==
    /\ pc = "done"
    /\ outcome = "Exhausted"
    /\ max_iterations >= 2
    /\ calls = max_iterations

\* C10: a failed Oracle call ends the session at once with an error: nothing
\* is returned, the call is not retried or counted as a round, and no other
\* call follows.
C10_FailedCallState ==
    oracle_event = "call_failed" =>
        /\ pc = "done"
        /\ outcome = "Failed"
        /\ fail_cause = "oracle_call"
        /\ ret = Unset
        /\ request = << >>

C10_OracleFailureIsTerminal ==
    /\ []C10_FailedCallState
    /\ [][(pc = "calling" /\ oracle_event' = "call_failed" /\ pc' # "calling")
             => (calls' = calls /\ iteration' = iteration /\ chat_history' = chat_history
                    /\ result' = result /\ invalid_containers' = invalid_containers)]_vars
    /\ [][outcome = "Failed" => (calls' = calls /\ ret' = ret /\ outcome' = outcome)]_vars

\* the call of a correction round failed
C10_Witness ==
    /\ oracle_event = "call_failed"
    /\ outcome = "Failed"
    /\ calls >= 2

\* the records of result are the parsed records of the same round, in the
\* order parsed, each identifier normalized and nothing else changed
ResultIsParsedCleaned ==
    /\ result # Unset
    /\ parsed # Unset
    /\ result[1].kind = parsed[1].kind
    /\ Len(result[1].items) = Len(parsed[1].items)
    /\ \A i \in 1..Len(result[1].items) :
          /\ result[1].items[i].carrier = parsed[1].items[i].carrier
          /\ result[1].items[i].has_id = parsed[1].items[i].has_id
          /\ result[1].items[i].container_id =
                 SubNonAZ09(PyUpper(parsed[1].items[i].container_id))

\* C11: when invalid identifiers remain in the round that uses the last
\* iteration, the session ends as Exhausted without an error and returns
\* that round's records as they are, the invalid identifiers still in place.
C11_ExhaustedReturnsLastRound ==
    ( /\ RoundValidated
      /\ calls = max_iterations
      /\ invalid_containers[1] # << >> )
        => /\ pc = "done"
           /\ outcome = "Exhausted"
           /\ fail_cause = "none"
           /\ ret = ValueOf(result)
           /\ ResultIsParsedCleaned
           /\ \A k \in 1..Len(invalid_containers[1]) :
                 \E i \in 1..Len(ret[1][1].items) :
                    ret[1][1].items[i] = invalid_containers[1][k]

\* the last of two rounds left one of its two records invalid
C11_Witness ==
    /\ outcome = "Exhausted"
    /\ max_iterations = 2
    /\ calls = 2
    /\ Len(result[1].items) = 2
    /\ Len(invalid_containers[1]) = 1

\* an identifier in the standard's form: 4 letters, 6 digits and the check
\* digit of these ten characters
IsStdValidId(id) ==
    /\ IsLettersThenDigits(id, 7)
    /\ StdCheckDigit(SubSeq(id, 1, 10)) = IntOfDigit(id[11])

\* a value a Converged session can return: records whose identifier is
\* absent or valid
CouldBeConvergedReturn(value) ==
    /\ value.kind \in { "array", "empty_object" }
    /\ \A i \in 1..Len(value.items) :
          value.items[i].has_id => IsStdValidId(value.items[i].container_id)

\* C12 as stated: from the value an Exhausted session returns the caller can
\* tell the outcome apart from Converged, that is, the value is never one a
\* Converged session returns.
C12_ExhaustedIsFlagged ==
    outcome = "Exhausted" => ~CouldBeConvergedReturn(ret[1][1])

\* C12 amended: an Exhausted session returns the last round's records and
\* nothing else; its validation errors are collected (and printed) but are
\* not in the returned value, which differs from a value a Converged session
\* returns exactly when an invalid identifier is left in it.
C12_ExhaustedReturnsBareRecords ==
    /\ outcome = "Converged" => CouldBeConvergedReturn(ret[1][1])
    /\ outcome = "Exhausted" =>
          /\ ret = ValueOf(result)
          /\ validation_errors # << >>
          /\ CouldBeConvergedReturn(ret[1][1]) <=> invalid_containers[1] = << >>

\* an Exhausted session returned records that a Converged one returns too
C12_Witness ==
    /\ outcome = "Exhausted"
    /\ Len(ret[1][1].items) >= 1
    /\ CouldBeConvergedReturn(ret[1][1])

\* C13: when round 1 leaves at least one invalid identifier and the response
\* to the first correction request has none and at least original_count
\* records, the session converges at round 2 after exactly two Oracle calls,
\* an initial extraction and one correction request, and returns round 2's
\* records in their order.
C13_SecondRoundState ==
    ( /\ RoundValidated
      /\ calls = 2
      /\ invalid_containers[1] = << >>
      /\ current_count >= original_count[1] )
        => /\ pc = "done"
           /\ outcome = "Converged"
           /\ ret = ValueOf(result)
           /\ ResultIsParsedCleaned

C13_ConvergesAtRoundTwo ==
    /\ []C13_SecondRoundState
    /\ [][(calls = 1 /\ calls' = 2) =>
             /\ invalid_containers # Unset
             /\ Len(invalid_containers[1]) >= 1
             /\ request' = Append(chat_history,
                                  UserTurn("correction", MapIds(invalid_containers[1]),
                                           original_count[1]))]_vars
    /\ [][(outcome = "Converged" /\ calls = 2) => calls' = 2]_vars

\* round 2 answered with as many records as round 1, two of them, all valid
C13_Witness ==
    /\ outcome = "Converged"
    /\ calls = 2
    /\ current_count = 2
    /\ original_count = ValueOf(2)
    /\ invalid_containers[1] = << >>

\* a normalized record that the specification classifies as invalid: it has
\* an identifier that is neither the sentinel "Unknown" nor valid
IsInvalidRecord(container) ==
    /\ container.has_id
    /\ ~IsUnknownSentinel(container.container_id)
    /\ ~IsStdValidId(container.container_id)

\* the identifiers of the invalid records, in the order of the records
InvalidIdsOf(items) ==
    LET invalid == SelectSeq(items, IsInvalidRecord)
    IN  [ k \in 1..Len(invalid) |-> invalid[k].container_id ]

\* C14: a correction request names exactly the identifiers that the round
\* just validated left invalid, in the order of their records, and none that
\* was valid or "Unknown" in that round.
C14_RequestNamesInvalidOnly ==
    (pc = "calling" /\ calls >= 2) =>
        LET turn == request[Len(request)]
        IN  /\ turn.kind = "correction"
            /\ turn.invalid_ids = InvalidIdsOf(result[1].items)

\* the number of correction requests among the turns of a history
RECURSIVE CorrectionTurns(_)
CorrectionTurns(history) ==
    IF history = << >> THEN 0
    ELSE (IF Head(history).kind = "correction" THEN 1 ELSE 0) + CorrectionTurns(Tail(history))

\* C15: the chat history records every exchange in order: after round n it
\* holds the initial request, then the response of each round preceded, from
\* round 2 on, by that round's correction request; the history sent with the
\* n-th correction request holds the n - 1 earlier correction requests.
C15_LogHoldsEveryExchange ==
    /\ RoundValidated =>
          /\ Len(chat_history) = 2 * calls
          /\ \A k \in 1..calls :
                /\ chat_history[2 * k - 1].role = "user"
                /\ chat_history[2 * k - 1].kind = (IF k = 1 THEN "initial" ELSE "correction")
                /\ chat_history[2 * k] = AssistantTurn(k)
    /\ (pc = "calling" /\ calls >= 2) =>
          CorrectionTurns(SubSeq(request, 1, Len(request) - 1)) = calls - 2

\* C16: the chat history is append-only: at every step the previous history
\* is a prefix of the new one, and a step that builds and sends a request
\* leaves the history as it was, the request being a copy of it followed by
\* the new prompt.
C16_LogAppendOnly ==
    [][ /\ Len(chat_history) <= Len(chat_history')
        /\ SubSeq(chat_history', 1, Len(chat_history)) = chat_history
        /\ (pc = "head" /\ pc' = "calling") =>
              /\ chat_history' = chat_history
              /\ Len(request') >= Len(chat_history)
              /\ SubSeq(request', 1, Len(chat_history)) = chat_history ]_vars

\* a second correction request was built from a history of three turns
C16_Witness ==
    /\ pc = "calling"
    /\ calls = 3
    /\ Len(chat_history) = 3
    /\ Len(request) = 4

\* C17: original_count is set once, to the number of records of the first
\* parsed response, and never changes afterwards; every later round is
\* compared with that value and every correction request states it.
C17_OriginalCountState ==
    /\ (original_count = Unset) <=> (parsed = Unset)
    /\ (oracle_event = "parsed" /\ calls = 1) =>
          original_count = ValueOf(Len(parsed[1].items))
    /\ (RoundValidated /\ calls >= 2) =>
          ( (\E k \in 1..Len(validation_errors) :
                validation_errors[k].kind = "count_decreased")
              <=> current_count < original_count[1] )

C17_OriginalCountFixed ==
    /\ []C17_OriginalCountState
    /\ [][original_count # Unset => original_count' = original_count]_vars
    /\ [][(pc' = "calling" /\ calls' >= 2) =>
             request'[Len(request')].count = original_count[1]]_vars

\* round 2 answered with fewer records than round 1, and the next correction
\* request still states the count of round 1
C17_Witness ==
    /\ pc = "calling"
    /\ calls = 3
    /\ original_count = ValueOf(2)
    /\ current_count = 1
    /\ request[Len(request)].count = 2

\* C18: with a positive max_iterations a session ends in exactly one of two
\* ways: it raises an error and returns nothing, or it returns the complete
\* set parsed from the last round's response, every record processed; it
\* never returns an absent, default or partly processed value.
C18_ReturnsCompleteSetOrRaises ==
    (pc = "done" /\ max_iterations > 0) =>
        \/ /\ outcome = "Failed"
           /\ fail_cause # "none"
           /\ ret = Unset
        \/ /\ outcome \in { "Converged", "Exhausted" }
           /\ fail_cause = "none"
           /\ ret # Unset
           /\ ret = ValueOf(result)
           /\ ResultIsParsedCleaned
           /\ oracle_event = "parsed"
           /\ chat_history[Len(chat_history)] = AssistantTurn(calls)

\* the third and last round's two records were returned, the second one
\* normalized from an identifier with separators
C18_Witness ==
    /\ pc = "done"
    /\ max_iterations = 3
    /\ calls = 3
    /\ ret # Unset
    /\ Len(ret[1][1].items) = 2
    /\ parsed[1].items[2].container_id = S_msku_spaced
    /\ ret[1][1].items[2].container_id # S_msku_spaced

\* the identifier of a record as the specification reads it: the sentinel
\* "Unknown" when the record has none
NormalizedIdentifier(container) ==
    IF container.has_id THEN container.container_id ELSE S_Unknown

\* C19 as stated: in the set held after a round's validation, and so in the
\* set returned, every record's normalized identifier is the sentinel
\* "Unknown" or has 11 characters, 4 letters followed by 7 digits.
C19_IdentifiersWellShaped ==
    RoundValidated =>
        \A i \in 1..Len(result[1].items) :
            LET id == NormalizedIdentifier(result[1].items[i])
            IN  id = S_Unknown \/ IsLettersThenDigits(id, 7)

\* C19 amended: in the set held after a round's validation, and so in the
\* set returned, every identifier consists of the characters A-Z and 0-9
\* only; an identifier has 11 characters, 4 letters followed by 7 digits,
\* unless its record is in the round's invalid subset, where identifiers of
\* any length and shape are kept as they are.
C19_IdentifiersNormalized ==
    /\ RoundValidated =>
          \A i \in 1..Len(result[1].items) :
              LET container == result[1].items[i]
                  id == container.container_id
              IN  container.has_id =>
                     /\ \A k \in 1..Len(id) : id[k] \in UpperLetters \cup DigitChars
                     /\ \/ \E k \in 1..Len(invalid_containers[1]) :
                              invalid_containers[1][k] = container
                        \/ IsLettersThenDigits(id, 7)
    /\ (RoundValidated /\ ret # Unset) => ret = ValueOf(result)

\* an Exhausted session returned a valid identifier next to an empty one
C19_Witness ==
    /\ outcome = "Exhausted"
    /\ ret # Unset
    /\ Len(ret[1][1].items) = 2
    /\ ret[1][1].items[1].has_id
    /\ ret[1][1].items[1].container_id = << >>
    /\ IsStdValidId(ret[1][1].items[2].container_id)

\* C20: an identifier that fails validation never aborts the session:
\* whatever the identifiers of a parsed array of records (wrong length, wrong
\* shape, wrong check digit, empty), the round is validated without an
\* error, every record whose identifier is not valid is put into the invalid
\* subset, and a non-empty invalid subset leads to another round or to
\* Exhausted; the session fails only for causes other than validation.
C20_ValidationNeverAborts ==
    /\ (oracle_event = "parsed" /\ parsed[1].kind = "array") =>
          /\ outcome # "Failed"
          /\ pc = "calling" \/ RoundValidated
    /\ outcome = "Failed" =>
          fail_cause \in { "image", "oracle_call", "parse", "not_records" }
    /\ RoundValidated =>
          /\ \A i \in 1..Len(result[1].items) :
                LET container == result[1].items[i]
                IN  (container.has_id /\ ~IsStdValidId(container.container_id)) =>
                       \E k \in 1..Len(invalid_containers[1]) :
                          invalid_containers[1][k] = container
          /\ invalid_containers[1] # << >> =>
                \/ pc = "head" /\ outcome = "Running" /\ iteration < max_iterations
                \/ pc = "done" /\ outcome = "Exhausted"

\* a round found an empty identifier and one with a wrong check digit, and
\* the session goes on to a correction round
C20_Witness ==
    /\ RoundValidated
    /\ pc = "head"
    /\ Len(invalid_containers[1]) = 2
    /\ invalid_containers[1][1].container_id = << >>
    /\ invalid_containers[1][2].container_id = S_CSQU3054384

(***************************************************************************)
(* Further properties of the validator (specification SpecValidator).      *)
(***************************************************************************)
\* the normalized form of a string, character by character: a letter in
\* upper case, a digit as it is, nothing for any other character
RECURSIVE Normalized(_)
Normalized(s) ==
    IF s = << >> THEN << >>
    ELSE LET c == Head(s)
             kept == IF c \in UpperLetters \cup DigitChars THEN << c >>
                     ELSE IF c \in LowerLetters THEN << UpperSeq[IndexOf(LowerSeq, c)] >>
                     ELSE IF c = "eszett" THEN << "S", "S" >>
                     ELSE << >>
         IN  kept \o Normalized(Tail(s))

\* C21 as stated: calculate_check_digit fails for every body whose
\* normalized form is not 4 letters followed by 6 digits.
C21_RejectsOtherShapes ==
    (vop = "calculate_check_digit" /\ ~IsLettersThenDigits(Normalized(vin), 6))
        => ~vout[1].ok

\* C21 amended: calculate_check_digit fails, with a ValueError, exactly when
\* the normalized body is not 10 characters long; it returns a check digit
\* for every 10 letters and digits in any arrangement, and a character that
\* is neither a letter nor a digit is removed before the length is tested.
C21_RejectsOtherLengths ==
    vop = "calculate_check_digit" =>
        /\ vout[1].ok <=> Len(Normalized(vin)) = 10
        /\ ~vout[1].ok => vout[1].exc = "ValueError"

\* a check digit was returned for ten digits, and for a body with a
\* separator in it
C21_Witness ==
    /\ vop = "calculate_check_digit"
    /\ vout[1].ok
    /\ \/ vin = S_1234567890
       \/ "-" \in Range(vin)

\* C22: clean_container_id returns a string for every input string, and
\* cleaning the result again gives the same string.
C22_CleanIdempotent ==
    vop = "clean_twice" =>
        /\ DOMAIN vout[1].once = 1..Len(vout[1].once)
        /\ vout[1].twice = vout[1].once

\* an input with two separators and lower-case letters was cleaned twice
C22_Witness ==
    /\ vop = "clean_twice"
    /\ Cardinality({ i \in 1..Len(vin) : vin[i] \in { " ", "-" } }) >= 2
    /\ \E i \in 1..Len(vin) : vin[i] \in LowerLetters
    /\ vout[1].once # vin

\* C23: clean_container_id(raw) is the upper-cased input without the
\* characters that are not in A-Z or 0-9: it holds only such characters,
\* and the kept characters are in the order of the input.
C23_CleanIsNormalized ==
    vop = "clean_container_id" =>
        /\ vout[1] = Normalized(vin)
        /\ \A k \in 1..Len(vout[1]) : vout[1][k] \in UpperLetters \cup DigitChars
        /\ Len(vout[1]) <= Len(PyUpper(vin))

\* lower-case letters were folded and separators removed
C23_Witness ==
    /\ vop = "clean_container_id"
    /\ vin = S_msku_spaced
    /\ vout # Unset
    /\ Len(vout[1]) = 11

\* C29: validate_container_id gives the same result for a string and for
\* its normalized form.
C29_ValidateAfterClean ==
    vop = "validate_cleaned" => vout[1].raw = vout[1].cleaned

\* an identifier with a separator is accepted before and after cleaning
C29_Witness ==
    /\ vop = "validate_cleaned"
    /\ clean_container_id(vin) # vin
    /\ vout[1].raw = TRUE
    /\ vout[1].cleaned = TRUE

\* C25: replacing one digit of a valid body by another digit changes the
\* weighted sum modulo 11, so the check digit changes unless the two
\* remainders are 0 and 10; replacing one letter by another leaves the check
\* digit unchanged only if the two letters' weighted values are congruent
\* modulo 11 or the remainders are 0 and 10.
C25_SingleReplacement ==
    vop = "check_digit_after_replace" =>
        LET pos     == vout[1].pos
            edited  == ReplaceAt(vin, pos, vout[1].char)
            r1      == StdSum(vin, 10) % 11
            r2      == StdSum(edited, 10) % 11
            w1      == (StdCharValue(vin[pos]) * StdWeights[pos]) % 11
            w2      == (StdCharValue(vout[1].char) * StdWeights[pos]) % 11
            same    == vout[1].before.val = vout[1].after.val
        IN  /\ vout[1].before.ok /\ vout[1].after.ok
            /\ pos >= 5 => (r1 # r2 /\ (same => { r1, r2 } = { 0, 10 }))
            /\ pos <= 4 => (same <=> (w1 = w2 \/ { r1, r2 } = { 0, 10 }))

\* a digit was replaced and the check digit stayed 0: the remainders are 0
\* and 10
C25_Witness ==
    /\ vop = "check_digit_after_replace"
    /\ vout[1].pos >= 5
    /\ vout[1].before.val = 0
    /\ vout[1].after.val = 0

\* a letter was replaced by one of a congruent value and the check digit
\* stayed the same
C25_LetterCollision ==
    /\ vop = "check_digit_after_replace"
    /\ vout[1].pos <= 4
    /\ vout[1].before.val = vout[1].after.val
    /\ vout[1].before.val # 0

\* C30: for a body of 10 letters and digits calculate_check_digit returns
\* an integer in 0..9, and for a body of 4 letters and 6 digits exactly one
\* of the ten digits, appended to the body, passes validate_container_id.
C30_OneValidDigit ==
    /\ (vop = "calculate_check_digit" /\ Len(Normalized(vin)) = 10) =>
          /\ vout[1].ok
          /\ vout[1].val \in 0..9
    /\ vop = "validate_each_digit" =>
          /\ Cardinality({ d \in 0..9 : vout[1][d] }) = 1
          /\ vout[1][StdCheckDigit(vin)]

\* for a body whose weighted sum leaves the remainder 10 the one digit
\* that passes is 0
C30_Witness ==
    /\ vop = "validate_each_digit"
    /\ StdSum(vin, 10) % 11 = 10
    /\ vout[1][0]

(***************************************************************************)
(* Properties of clean_response_content (specification SpecClean).         *)
(***************************************************************************)
\* C27: stripping the code fence of a response text is idempotent, and a
\* text that does not start with a code fence is returned unchanged.
C27_StripIdempotent ==
    /\ vop = "clean_response_twice" => vout[1].twice = vout[1].once
    /\ (vop = "clean_response_content" /\ ~StartsWith(vin, Fence)) => vout[1] = vin

(***************************************************************************)
(* Further properties of a session (specification Spec).                   *)
(***************************************************************************)
\* the positions of validation_errors that log a violation of the count
CountErrorPositions ==
    { k \in 1..Len(validation_errors) : validation_errors[k].kind = "count_decreased" }

\* C24 as stated: after a correction round, a response whose records
\* violate the count of the first round (fewer or more records) is detected
\* and logged, and the set is kept as the Oracle returned it.
C24_CountViolationLogged ==
    (RoundValidated /\ calls >= 2 /\ current_count # original_count[1])
        => /\ CountErrorPositions # { }
           /\ ResultIsParsedCleaned

\* C24 amended: after a correction round only a decrease of the count is
\* detected and logged; besides the invalid identifiers nothing else is
\* logged, so more records than in the first round, or the records in
\* another order, go unnoticed.  The set is never repaired: it is kept as
\* the Oracle returned it but for the normalized identifiers.
C24_OnlyDecreaseLogged ==
    RoundValidated =>
        /\ ResultIsParsedCleaned
        /\ current_count = Len(parsed[1].items)
        /\ \A k \in 1..Len(validation_errors) :
              validation_errors[k].kind \in { "invalid_id", "count_decreased" }
        /\ Cardinality({ k \in 1..Len(validation_errors) :
                             validation_errors[k].kind = "invalid_id" })
              = Len(invalid_containers[1])
        /\ IF calls >= 2 /\ current_count < original_count[1]
           THEN /\ CountErrorPositions = { Len(validation_errors) }
                /\ validation_errors[Len(validation_errors)].index = original_count[1]
                /\ validation_errors[Len(validation_errors)].count = current_count
           ELSE CountErrorPositions = { }

\* a correction round answered with more records than the first round and
\* converged with nothing logged
C24_Witness ==
    /\ RoundValidated
    /\ calls >= 2
    /\ current_count > original_count[1]
    /\ validation_errors = << >>
    /\ outcome = "Converged"

\* C26: the set a session returns is the last parsed response, with as many
\* records in the same order, each record as parsed except that an
\* identifier it has is replaced by its normalized form; no other field is
\* changed and no field is added or removed.
C26_ReturnedIsParsedNormalized ==
    (pc = "done" /\ outcome \in { "Converged", "Exhausted" }) =>
        LET returned == ret[1][1]
            last     == parsed[1]
        IN  /\ returned.kind = last.kind
            /\ Len(returned.items) = Len(last.items)
            /\ \A i \in 1..Len(last.items) :
                  /\ DOMAIN returned.items[i] = DOMAIN last.items[i]
                  /\ returned.items[i].carrier = last.items[i].carrier
                  /\ returned.items[i].has_id = last.items[i].has_id
                  /\ returned.items[i].container_id =
                         (IF last.items[i].has_id
                          THEN Normalized(last.items[i].container_id)
                          ELSE last.items[i].container_id)

\* a record without identifier and a record whose identifier had separators
\* were returned, the carrier of both as parsed
C26_Witness ==
    /\ pc = "done"
    /\ outcome \in { "Converged", "Exhausted" }
    /\ Len(ret[1][1].items) = 2
    /\ ~ret[1][1].items[1].has_id
    /\ parsed[1].items[2].container_id = S_msku_spaced
    /\ ret[1][1].items[2].container_id = Normalized(S_msku_spaced)
    /\ ret[1][1].items[2].carrier = "MAERSK"

\* C28: a correction request is sent only after a round whose invalid
\* subset is not empty: whenever the Oracle is called for a correction, the
\* request names at least one invalid identifier.
C28_CorrectionNamesAnIdentifier ==
    (pc = "calling" /\ calls >= 2) =>
        /\ request[Len(request)].kind = "correction"
        /\ request[Len(request)].invalid_ids # << >>
        /\ invalid_containers[1] # << >>

\* C31: a parsed record without identifier field is counted in the round's
\* record count, and in original_count on the first round, but is not
\* normalized, not validated and not put into the invalid subset: it stays
\* as parsed, and neither invalid_containers nor validation_errors names it.
C31_NoIdentifierIsExempt ==
    RoundValidated =>
        /\ current_count = Len(parsed[1].items)
        /\ calls = 1 => original_count = ValueOf(Len(parsed[1].items))
        /\ \A i \in 1..Len(parsed[1].items) :
              ~parsed[1].items[i].has_id =>
                 /\ result[1].items[i] = parsed[1].items[i]
                 /\ \A k \in 1..Len(invalid_containers[1]) :
                       invalid_containers[1][k] # result[1].items[i]
                 /\ \A k \in 1..Len(validation_errors) :
                       validation_errors[k].kind = "invalid_id"
                          => validation_errors[k].index # i - 1
        /\ (\A i \in 1..Len(parsed[1].items) : ~parsed[1].items[i].has_id)
              => (invalid_containers[1] = << >> /\ (calls = 1 => outcome = "Converged"))

\* the first round parsed a record without identifier next to an invalid
\* one: both are counted, only the second is in the invalid subset
C31_Witness ==
    /\ RoundValidated
    /\ calls = 1
    /\ original_count = ValueOf(2)
    /\ ~parsed[1].items[1].has_id
    /\ parsed[1].items[2].has_id
    /\ Len(invalid_containers[1]) = 1
    /\ invalid_containers[1][1] = result[1].items[2]


\* the entries of results reported for the pair (model, test_case)
EntriesFor(model, test_case) ==
    { k \in 1..Len(results) :
         results[k].model = model /\ results[k].test_case = test_case }

IdentifiersOf(items) ==
    { items[i].container_id : i \in { j \in 1..Len(items) : items[j].has_id } }
       \ { << >> }

\* C33: calculate_metrics never raises; its counts are those of the sets of
\* non-empty identifiers of the two lists, true_positives + false_positives is
\* total_predicted, true_positives + false_negatives is total_expected,
\* missing_ids and extra_ids share no identifier, and precision, recall and
\* f1_score are 0 when either set is empty.
C33_MetricsOnIdentifierSets ==
    vop = "calculate_metrics" =>
       LET P == IdentifiersOf(vin.predicted)
           E == IdentifiersOf(vin.expected)
           r == vout[1]
       IN  /\ r.ok
           /\ r.val.total_predicted = Cardinality(P)
           /\ r.val.total_expected = Cardinality(E)
           /\ Range(r.val.predicted_ids) = P
           /\ Range(r.val.expected_ids) = E
           /\ r.val.true_positives = Cardinality(P \cap E)
           /\ r.val.true_positives + r.val.false_positives = r.val.total_predicted
           /\ r.val.true_positives + r.val.false_negatives = r.val.total_expected
           /\ Range(r.val.missing_ids) \cap Range(r.val.extra_ids) = { }
           /\ Range(r.val.missing_ids) = E \ P
           /\ Range(r.val.extra_ids) = P \ E
           /\ (P = { } \/ E = { }) =>
                 /\ r.val.precision = Zero
                 /\ r.val.recall = Zero
                 /\ r.val.f1_score = Zero

\* the predicted list carries only an empty identifier and a record without
\* one, the expected list two identifiers: nothing is divided by zero
C33_Witness ==
    /\ vop = "calculate_metrics"
    /\ vin.predicted = << Item(TRUE, << >>, "EVERGREEN"), Item(FALSE, << >>, "CROWLEY") >>
    /\ IdentifiersOf(vin.expected) = { S_CSQU3054383, S_CSQU3054384 }
    /\ vout[1].ok
    /\ vout[1].val.total_predicted = 0
    /\ vout[1].val.false_negatives = 2
    /\ vout[1].val.missing_ids = << S_CSQU3054383, S_CSQU3054384 >>
    /\ vout[1].val.f1_score = Zero

====
